---- MODULE Spec2Model ----
(***************************************************************************)
(* Model of the report parser and the cross-contest aggregation of         *)
(* hackbot-human-comparison:                                               *)
(*   src/src/human_comparison/contest_processor.py  (ContestProcessor)     *)
(*   src/src/human_comparison/contest_aggregate.py  (ContestAggregator)    *)
(*   src/src/human_comparison/utils/known_replacements.py                  *)
(*                                                                         *)
(* A Python str is modelled as a sequence of one-character strings, so     *)
(* that startswith, replace, split and strip are computed, not assumed.    *)
(* A Python dict is modelled as a sequence of records in insertion order,  *)
(* with at most one record per key.                                        *)
(***************************************************************************)
EXTENDS Integers, Sequences, FiniteSets, TLC

VARIABLES
    pc,                 \* position of the run
    exclude_zero_score, \* ContestAggregator._exclude_zero_score
    top_percentile,     \* ContestAggregator._top_percentile, as a fraction
    wardens_stats,      \* GlobalWardenContainer._wardens_stats
    reports,            \* the reports of the contest list, where they are the input
    ncontests,          \* contests of the input list consumed so far
    repo_name,          \* ContestProcessor._repo_name
    typos,              \* ContestProcessor._typos
    bots,               \* ContestProcessor._bots
    wardens,            \* ContestProcessor._wardens (LocalWardenContainer)
    issues,             \* ContestProcessor._issues
    uid,                \* _extract_issues: uid
    nblocks,            \* issue blocks of the contest consumed so far
    text,               \* _extract_submitted_by: text (issue[0])
    line,               \* _extract_submitted_by: line
    pos,                \* index in line of the next char of the scan
    comment_queue,      \* _extract_submitted_by: comment_queue
    name_buffer,        \* _extract_submitted_by: name_buffer
    names,              \* _extract_submitted_by: names
    issue_data,         \* _extract_issues: issue_data
    submitters,         \* _extract_issues: submitters still to attribute
    top_wardens,        \* get_top_performer_stats: top_wardens
    displayed,          \* the "- name findings: ..." lines logged
    total_ratio,        \* get_top_performer_stats: total_ratio
    avg                 \* get_top_performer_stats: avg

vars == <<pc, exclude_zero_score, top_percentile, wardens_stats, reports, ncontests,
          repo_name, typos, bots, wardens, issues, uid, nblocks, text, line,
          pos, comment_queue, name_buffer, names, issue_data, submitters,
          top_wardens, displayed, total_ratio, avg>>

aggVars == <<exclude_zero_score, top_percentile, wardens_stats, reports, ncontests,
             top_wardens, displayed, total_ratio, avg>>
contestVars == <<repo_name, typos, bots, wardens, issues, uid, nblocks,
                 issue_data, submitters>>
scanVars == <<line, pos, comment_queue, name_buffer, names>>

\* Optional values: None is the empty sequence, a value x is <<x>>.
None == <<>>
Some(x) == <<x>>

(***************************************************************************)
(* Bounds of the model.                                                    *)
(***************************************************************************)
MaxContests == 2    \* length of the contest list
MaxBlocks == 2      \* issue blocks per contest
MaxTextLen == 3     \* length of the generated submitter texts

(***************************************************************************)
(* str operations.                                                         *)
(***************************************************************************)
Last(s) == s[Len(s)]
Front(s) == SubSeq(s, 1, Len(s) - 1)
Max(a, b) == IF a >= b THEN a ELSE b
Min(a, b) == IF a <= b THEN a ELSE b

\* s[i-1:] starts with p (i is 1-based)
MatchAt(s, p, i) ==
    /\ i + Len(p) - 1 <= Len(s)
    /\ \A k \in 1..Len(p) : s[i + k - 1] = p[k]

StartsWith(s, p) == MatchAt(s, p, 1)
EndsWith(s, p) == Len(p) <= Len(s) /\ MatchAt(s, p, Len(s) - Len(p) + 1)

\* str.replace(old, new): leftmost non-overlapping occurrences, old non-empty
RECURSIVE ReplaceFrom(_, _, _, _)
ReplaceFrom(s, old, new, i) ==
    IF i > Len(s) THEN <<>>
    ELSE IF MatchAt(s, old, i) THEN new \o ReplaceFrom(s, old, new, i + Len(old))
    ELSE <<s[i]>> \o ReplaceFrom(s, old, new, i + 1)

Replace(s, old, new) == ReplaceFrom(s, old, new, 1)

\* str.split("\n"): always at least one piece
RECURSIVE SplitFrom(_, _, _)
SplitFrom(s, i, cur) ==
    IF i > Len(s) THEN <<cur>>
    ELSE IF s[i] = "\n" THEN <<cur>> \o SplitFrom(s, i + 1, <<>>)
    ELSE SplitFrom(s, i + 1, Append(cur, s[i]))

SplitLines(s) == SplitFrom(s, 1, <<>>)

Whitespace == {" ", "\n", "\t", "\r"}

\* str.strip()
RECURSIVE LStrip(_)
LStrip(s) == IF s # <<>> /\ s[1] \in Whitespace THEN LStrip(Tail(s)) ELSE s
RECURSIVE RStrip(_)
RStrip(s) == IF s # <<>> /\ Last(s) \in Whitespace THEN RStrip(Front(s)) ELSE s
Strip(s) == RStrip(LStrip(s))

(***************************************************************************)
(* contest_processor.py, module level.                                     *)
(***************************************************************************)
StarMarker == <<"*","S","u","b","m","i","t","t","e","d"," ","b","y"," ">>
UnderMarker == <<"_","S","u","b","m","i","t","t","e","d"," ","b","y"," ">>
AlsoFoundBy == <<"a","l","s","o"," ","f","o","u","n","d"," ","b","y"," ">>
AndWord == <<" ","a","n","d"," ">>

replace_special_chars(t) ==
    Replace(Replace(Replace(t, <<"&","#","9","5",";">>, <<"_">>),
                    <<"\\","_">>, <<"_">>),
            <<"&","l","o","w","b","a","r",";">>, <<"_">>)

replace_final_chars(t) ==
    IF EndsWith(t, <<"*",".","\n">>) THEN SubSeq(t, 1, Len(t) - 3) \o <<"\n">>
    ELSE IF EndsWith(t, <<".","*","\n">>) THEN SubSeq(t, 1, Len(t) - 3) \o <<"\n">>
    ELSE IF EndsWith(t, <<"*","\n">>) THEN SubSeq(t, 1, Len(t) - 2) \o <<"\n">>
    ELSE IF EndsWith(t, <<"_","\n">>) THEN SubSeq(t, 1, Len(t) - 2) \o <<"\n">>
    ELSE t

(***************************************************************************)
(* known_replacements.py                                                   *)
(***************************************************************************)
Typo141345 == <<"_","1","4","1","3","4","5","_">>
Fixed141345 == <<"_","_","1","4","1","3","4","5","_","_">>
Henry == <<"h","e","n","r","y">>
IllIllI == <<"I","l","l","I","l","l","I">>
BotPrefix == <<"b","o","t","-">>

EmptyDict == [k \in {} |-> k]

get_typos(repo) ==
    IF repo = "2022-11-size" THEN (Typo141345 :> Fixed141345) ELSE EmptyDict

get_bots(repo) ==
    IF repo = "2023-10-wildcat" THEN <<Henry>>
    ELSE IF repo = "2023-08-dopex" THEN <<IllIllI>>
    ELSE <<>>

(***************************************************************************)
(* ContestProcessor._extract_submitted_by                                  *)
(***************************************************************************)
\* Lines 210-219: the for loop rebinds `line` on every iteration, so after
\* the loop `line` is the stripped marker line if one was met, and otherwise
\* the last piece of text.split("\n").  cur is the value of `line` before
\* iteration i.
RECURSIVE SubmittedLineFrom(_, _, _)
SubmittedLineFrom(ls, i, cur) ==
    IF i > Len(ls) THEN cur
    ELSE IF StartsWith(ls[i], StarMarker) THEN Some(Replace(ls[i], StarMarker, <<>>))
    ELSE IF StartsWith(ls[i], UnderMarker) THEN Some(Replace(ls[i], UnderMarker, <<>>))
    ELSE SubmittedLineFrom(ls, i + 1, Some(ls[i]))

SubmittedLine(t) == SubmittedLineFrom(SplitLines(t), 1, None)

\* The clean-up with "also found by " turned into a comma like " and "
CleanLineAlsoComma(l) ==
    replace_final_chars(
        replace_special_chars(
            Replace(Replace(l \o <<"\n">>, AlsoFoundBy, <<",", " ">>), AndWord, <<",", " ">>)))

\* Lines 223-233
CleanLine(l) ==
    replace_final_chars(
        replace_special_chars(
            Replace(Replace(l \o <<"\n">>, AlsoFoundBy, <<>>), AndWord, <<",", " ">>)))

\* Lines 260-263: the flush at a comma
FlushName(buf, ty) ==
    LET name == Strip(buf)
    IN  IF name \in DOMAIN ty THEN ty[name] ELSE name

\* The scan with an unmatched ")" skipped instead of fatal
ScanCharSkipUnmatched(st, char, ty) ==
    IF char = "(" THEN [st EXCEPT !.comment_queue = Append(@, char)]
    ELSE IF char = ")" THEN
        IF st.comment_queue # <<>> THEN [st EXCEPT !.comment_queue = Front(@)] ELSE st
    ELSE IF char = "[" \/ char = "]" THEN st
    ELSE IF char = "," /\ st.comment_queue = <<>> THEN
        IF st.name_buffer # <<>>
        THEN [st EXCEPT !.names = Append(@, FlushName(st.name_buffer, ty)),
                        !.name_buffer = <<>>]
        ELSE st
    ELSE IF st.comment_queue = <<>> THEN [st EXCEPT !.name_buffer = Append(@, char)]
    ELSE st

\* The scan with only the parentheses dropped, not what they enclose
ScanCharKeepComment(st, char, ty) ==
    IF char = "(" THEN [st EXCEPT !.comment_queue = Append(@, char)]
    ELSE IF char = ")" THEN
        IF st.comment_queue # <<>> THEN [st EXCEPT !.comment_queue = Front(@)]
        ELSE [st EXCEPT !.fatal = TRUE]
    ELSE IF char = "[" \/ char = "]" THEN st
    ELSE IF char = "," /\ st.comment_queue = <<>> THEN
        IF st.name_buffer # <<>>
        THEN [st EXCEPT !.names = Append(@, FlushName(st.name_buffer, ty)),
                        !.name_buffer = <<>>]
        ELSE st
    ELSE [st EXCEPT !.name_buffer = Append(@, char)]

\* The scan splitting on every comma, also inside parentheses
ScanCharSplitAnywhere(st, char, ty) ==
    IF char = "(" THEN [st EXCEPT !.comment_queue = Append(@, char)]
    ELSE IF char = ")" THEN
        IF st.comment_queue # <<>> THEN [st EXCEPT !.comment_queue = Front(@)]
        ELSE [st EXCEPT !.fatal = TRUE]
    ELSE IF char = "[" \/ char = "]" THEN st
    ELSE IF char = "," THEN
        IF st.name_buffer # <<>>
        THEN [st EXCEPT !.names = Append(@, FlushName(st.name_buffer, ty)),
                        !.name_buffer = <<>>]
        ELSE st
    ELSE IF st.comment_queue = <<>> THEN [st EXCEPT !.name_buffer = Append(@, char)]
    ELSE st

\* Lines 242-267: one iteration of the scan.  st.fatal stands for exit(1).
ScanChar(st, char, ty) ==
    IF char = "(" THEN [st EXCEPT !.comment_queue = Append(@, char)]
    ELSE IF char = ")" THEN
        IF st.comment_queue # <<>> /\ Last(st.comment_queue) = "("
        THEN [st EXCEPT !.comment_queue = Front(@)]
        ELSE [st EXCEPT !.fatal = TRUE]
    ELSE IF char = "[" THEN st
    ELSE IF char = "]" THEN st
    ELSE IF char = "," /\ st.comment_queue = <<>> THEN
        IF st.name_buffer # <<>>
        THEN [st EXCEPT !.names = Append(@, FlushName(st.name_buffer, ty)),
                        !.name_buffer = <<>>]
        ELSE st
    ELSE IF st.comment_queue = <<>> THEN [st EXCEPT !.name_buffer = Append(@, char)]
    ELSE st

\* Lines 269-271: the flush at the end of the line
FinalNames(ns, buf) == IF buf # <<>> THEN Append(ns, Strip(buf)) ELSE ns

\* Entry of _extract_submitted_by(issue[0]) up to the start of the scan.
FindSubmittedLine ==
    /\ pc = "call"
    /\ LET l == SubmittedLine(text)
       IN  IF l = None
           THEN /\ pc' = "aborted"
                /\ UNCHANGED scanVars
           ELSE /\ pc' = "scan"
                /\ line' = CleanLine(l[1])
                /\ pos' = 1
                /\ comment_queue' = <<>>
                /\ name_buffer' = <<>>
                /\ names' = <<>>
    /\ UNCHANGED <<aggVars, contestVars, text>>

\* One character of the scan; an unmatched ")" ends the process.
ScanStep ==
    /\ pc = "scan"
    /\ pos <= Len(line)
    /\ LET st == ScanChar([comment_queue |-> comment_queue,
                           name_buffer |-> name_buffer,
                           names |-> names, fatal |-> FALSE], line[pos], typos)
       IN  /\ comment_queue' = st.comment_queue
           /\ name_buffer' = st.name_buffer
           /\ names' = st.names
           /\ IF st.fatal
              THEN pc' = "aborted" /\ pos' = pos
              ELSE pc' = "scan" /\ pos' = pos + 1
    /\ UNCHANGED <<aggVars, contestVars, text, line>>

\* End of the line: the last name is flushed and the list returned.
ScanEnd ==
    /\ pc = "scan"
    /\ pos > Len(line)
    /\ names' = FinalNames(names, name_buffer)
    /\ pc' = "parsed"
    /\ UNCHANGED <<aggVars, contestVars, text, line, pos, comment_queue, name_buffer>>

(***************************************************************************)
(* Submitter texts.                                                        *)
(***************************************************************************)
Alphabet == {"a", " ", ",", "(", ")", "[", "]", "\n"}
Strings(n) == UNION {[1..k -> Alphabet] : k \in 0..n}
GeneratedTexts == {p \o b : p \in {<<>>, StarMarker}, b \in Strings(MaxTextLen)}

Repos == {"2022-11-size", "2023-10-wildcat", "2024-01-other"}

(***************************************************************************)
(* ContestProcessor._extract_issue_info                                    *)
(***************************************************************************)
Digits == {"0", "1", "2", "3", "4", "5", "6", "7", "8", "9"}
DigitVal(c) == CHOOSE v \in 0..9 : ToString(v) = c

\* End of the run of digits that starts at i: the first index that holds none
RECURSIVE DigitsEnd(_, _)
DigitsEnd(s, i) == IF i <= Len(s) /\ s[i] \in Digits THEN DigitsEnd(s, i + 1) ELSE i

\* int(match.group(2))
RECURSIVE ParseInt(_, _, _, _)
ParseInt(s, i, e, acc) == IF i >= e THEN acc ELSE ParseInt(s, i + 1, e, acc * 10 + DigitVal(s[i]))

\* "(H|M)-(\d+)\] " at i; \d+ is followed by a non-digit, so it is the whole run
SeverityIdAt(s, i) ==
    /\ i + 1 <= Len(s)
    /\ s[i] \in {"H", "M"}
    /\ s[i + 1] = "-"
    /\ DigitsEnd(s, i + 2) > i + 2
    /\ MatchAt(s, <<"]", " ">>, DigitsEnd(s, i + 2))

\* issue_title_regex_nohyperlink matches at i:  ## \[(H|M)-(\d+)\] (.*)
NoHyperlinkAt(s, i) == MatchAt(s, <<"#","#"," ","[">>, i) /\ SeverityIdAt(s, i + 4)

\* Index of the first "]" after p, 0 if there is none
RECURSIVE FirstClose(_, _)
FirstClose(s, p) ==
    IF p > Len(s) THEN 0 ELSE IF s[p] = "]" THEN p ELSE FirstClose(s, p + 1)

\* Indices at which ((?:\[[^\]]*\]|[^\]])*) can end when it starts at p
RECURSIVE TitleEnds(_, _)
TitleEnds(s, p) ==
    {p}
    \cup (IF p <= Len(s) /\ s[p] # "]" THEN TitleEnds(s, p + 1) ELSE {})
    \cup (IF p <= Len(s) /\ s[p] = "[" /\ FirstClose(s, p + 1) # 0
          THEN TitleEnds(s, FirstClose(s, p + 1) + 1) ELSE {})

\* \]\(https?://[^\)]+\) at k
UrlAt(s, k) ==
    /\ MatchAt(s, <<"]","(","h","t","t","p">>, k)
    /\ LET u == IF k + 6 <= Len(s) /\ s[k + 6] = "s" THEN k + 7 ELSE k + 6
       IN  /\ MatchAt(s, <<":","/","/">>, u)
           /\ u + 3 <= Len(s)
           /\ s[u + 3] # ")"
           /\ \E w \in (u + 4)..Len(s) : s[w] = ")"

\* issue_title_regex matches at i
HyperlinkAt(s, i) ==
    /\ MatchAt(s, <<"#","#"," ","[","[">>, i)
    /\ SeverityIdAt(s, i + 5)
    /\ \E k \in TitleEnds(s, DigitsEnd(s, i + 7) + 2) : UrlAt(s, k)

IssueInfoAt(s, j) ==
    [severity |-> s[j], id |-> ParseInt(s, j + 2, DigitsEnd(s, j + 2), 0)]

\* Lines 175-190; the title (group 3) is not modelled, nothing reads it but logs
extract_issue_info(t) ==
    IF ~StartsWith(t, <<"#","#"," ","[">>) /\ ~StartsWith(t, <<"#"," ">>) THEN None
    ELSE LET m1 == {i \in 1..Len(t) : HyperlinkAt(t, i)}
             m2 == {i \in 1..Len(t) : NoHyperlinkAt(t, i)}
             first(S) == CHOOSE i \in S : \A j \in S : i <= j
         IN  IF m1 # {} THEN Some(IssueInfoAt(t, first(m1) + 5))
             ELSE IF m2 # {} THEN Some(IssueInfoAt(t, first(m2) + 4))
             ELSE None

(***************************************************************************)
(* Warden, LocalWardenContainer                                            *)
(***************************************************************************)
\* Warden.get_total_findings; its assertion is the invariant of the ledger
get_total_findings(w) == Len(w.findings)

\* dict: index of key `name` in d, 0 if absent
IndexOf(d, name) ==
    IF \E i \in 1..Len(d) : d[i].name = name
    THEN CHOOSE i \in 1..Len(d) : d[i].name = name
    ELSE 0

\* LocalWardenContainer.set_warden: d[name] = rec
set_warden(d, rec) ==
    IF IndexOf(d, rec.name) = 0 THEN Append(d, rec)
    ELSE [d EXCEPT ![IndexOf(d, rec.name)] = rec]

NewWarden(name) ==
    [name |-> name, findings |-> <<>>, findings_high |-> 0, findings_medium |-> 0]

\* _extract_wardens, lines 305-321: roster holds the names the numbered list
\* yields (lines 289-303), in document order; the bots follow.
RECURSIVE SetWardens(_, _, _)
SetWardens(d, ns, i) ==
    IF i > Len(ns) THEN d ELSE SetWardens(set_warden(d, NewWarden(ns[i])), ns, i + 1)

extract_wardens(roster, bs) ==
    SetWardens(SetWardens(<<>>, roster, 1), [i \in 1..Len(bs) |-> BotPrefix \o bs[i]], 1)

\* The credit with the medium counter forgotten
CreditHighOnly(w, issue) ==
    IF issue.severity = "H"
    THEN [w EXCEPT !.findings = Append(@, issue.uid), !.findings_high = @ + 1]
    ELSE [w EXCEPT !.findings = Append(@, issue.uid)]

\* _extract_issues, lines 375-379: the warden is credited with the issue
Credit(w, issue) ==
    IF issue.severity = "H"
    THEN [w EXCEPT !.findings = Append(@, issue.uid), !.findings_high = @ + 1]
    ELSE [w EXCEPT !.findings = Append(@, issue.uid), !.findings_medium = @ + 1]

InSeq(x, sq) == \E i \in 1..Len(sq) : sq[i] = x

(***************************************************************************)
(* GlobalWardenStats, GlobalWardenContainer                                *)
(***************************************************************************)
\* float(a) / float(b) is kept as the fraction a/b
Frac(a, b) == [num |-> a, den |-> b]
FracLess(x, y) == x.num * y.den < y.num * x.den

\* GlobalWardenStats.__init__
GlobalWardenStats(w, report_issues) ==
    [name |-> w.name,
     total_findings |-> get_total_findings(w),
     total_high |-> w.findings_high,
     total_medium |-> w.findings_medium,
     total_issues |-> report_issues,
     contest_participations |-> 1,
     avg_findings_per_contest |-> Frac(get_total_findings(w), 1),
     avg_findings_per_issues |-> Frac(get_total_findings(w), report_issues)]

\* GlobalWardenStats.update
update(g, w, excl, report_issues) ==
    IF excl /\ get_total_findings(w) = 0 THEN g
    ELSE [g EXCEPT
            !.total_findings = @ + get_total_findings(w),
            !.total_high = @ + w.findings_high,
            !.total_medium = @ + w.findings_medium,
            !.total_issues = @ + report_issues,
            !.contest_participations = @ + 1,
            !.avg_findings_per_contest =
                Frac(g.total_findings + get_total_findings(w), g.contest_participations + 1),
            !.avg_findings_per_issues =
                Frac(g.total_findings + get_total_findings(w), g.total_issues + report_issues)]

\* GlobalWardenContainer.update_warden_stats: the loop from warden i on
RECURSIVE UpdateFrom(_, _, _, _, _)
UpdateFrom(stats, ws, i, excl, report_issues) ==
    IF i > Len(ws) THEN stats
    ELSE LET k == IndexOf(stats, ws[i].name)
             nxt == IF k = 0
                    THEN Append(stats, GlobalWardenStats(ws[i], report_issues))
                    ELSE [stats EXCEPT ![k] = update(stats[k], ws[i], excl, report_issues)]
         IN  UpdateFrom(nxt, ws, i + 1, excl, report_issues)

update_warden_stats(stats, ws, excl, report_issues) ==
    UpdateFrom(stats, ws, 1, excl, report_issues)

\* sorted(..., key, reverse): stable; x goes before the first element that
\* must follow it
Before(x, y, reverse) ==
    IF reverse THEN FracLess(y.avg_findings_per_issues, x.avg_findings_per_issues)
    ELSE FracLess(x.avg_findings_per_issues, y.avg_findings_per_issues)

Insert(sorted, x, reverse) ==
    LET later == {i \in 1..Len(sorted) : Before(x, sorted[i], reverse)}
        k == IF later = {} THEN Len(sorted) + 1
             ELSE CHOOSE i \in later : \A j \in later : i <= j
    IN  SubSeq(sorted, 1, k - 1) \o <<x>> \o SubSeq(sorted, k, Len(sorted))

RECURSIVE SortFrom(_, _, _, _)
SortFrom(sorted, sq, i, reverse) ==
    IF i > Len(sq) THEN sorted
    ELSE SortFrom(Insert(sorted, sq[i], reverse), sq, i + 1, reverse)

\* The sort with reverse=False
sort_wardens_ascending(stats) == SortFrom(<<>>, stats, 1, FALSE)

\* The sort with the default key of sort_wardens, avg_findings_per_contest
RECURSIVE sort_wardens_by_contest(_)
sort_wardens_by_contest(stats) ==
    IF stats = <<>> THEN <<>>
    ELSE LET rest == sort_wardens_by_contest(Front(stats))
             x == Last(stats)
             later == {i \in 1..Len(rest) :
                          FracLess(rest[i].avg_findings_per_contest, x.avg_findings_per_contest)}
             k == IF later = {} THEN Len(rest) + 1
                  ELSE CHOOSE i \in later : \A j \in later : i <= j
         IN  SubSeq(rest, 1, k - 1) \o <<x>> \o SubSeq(rest, k, Len(rest))

\* GlobalWardenContainer.sort_wardens(lambda x: x.avg_findings_per_issues);
\* reverse keeps its default, True
sort_wardens(stats) == SortFrom(<<>>, stats, 1, TRUE)

(***************************************************************************)
(* Inputs of the run.                                                      *)
(***************************************************************************)
NL == <<"\n">>
NameA == <<"a">>
NameB == <<"b">>
HdrH == <<"#","#"," ","[","H","-","0","2","]"," ","T">>
HdrM == <<"#","#"," ","[","[","M","-","0","1","]"," ","T","]","(","h","t","t","p",":","/","/","x",")">>
HdrLow == <<"#","#"," ","[","L","-","0","1","]"," ","T">>

TextBHenry == HdrM \o NL \o UnderMarker \o <<"b"," ","(","x",")",","," ","h","e","n","r","y","_">>
TextAA == HdrH \o NL \o StarMarker \o <<"a",","," ","a","*">>
TextLowA == HdrLow \o NL \o StarMarker \o <<"a","*">>
TextLowParen == HdrLow \o NL \o StarMarker \o <<"a",")","*">>

RunTexts == {TextBHenry, TextAA, TextLowA, TextLowParen}
\* A contest of the list: its repository name and the names of its roster
RunContests ==
    {[repo_name |-> "2023-10-wildcat", roster |-> <<NameA>>],
     [repo_name |-> "2024-01-other", roster |-> <<NameA, NameB>>]}
\* top_percentile as the fraction written: 0.0, 0.25, 0.875
TopPercentiles == {Frac(0, 8), Frac(2, 8), Frac(7, 8)}

(***************************************************************************)
(* ContestProcessor.process_contest and _extract_issues                    *)
(***************************************************************************)
NoScan ==
    /\ text' = <<>>
    /\ line' = <<>>
    /\ pos' = 1
    /\ comment_queue' = <<>>
    /\ name_buffer' = <<>>
    /\ names' = <<>>

\* process_contest lines 429-440 for the next contest of the list: a fresh
\* ContestProcessor, the known replacements, the roster
StartContest(repo, roster) ==
    /\ pc = "contests"
    /\ ncontests < MaxContests
    /\ ncontests' = ncontests + 1
    /\ repo_name' = repo
    /\ bots' = get_bots(repo)
    /\ typos' = get_typos(repo)
    /\ wardens' = extract_wardens(roster, get_bots(repo))
    /\ issues' = <<>>
    /\ uid' = 1
    /\ nblocks' = 0
    /\ issue_data' = None
    /\ submitters' = <<>>
    /\ pc' = "blocks"
    /\ UNCHANGED <<exclude_zero_score, top_percentile, wardens_stats, reports,
                   top_wardens, displayed, total_ratio, avg, text, scanVars>>

\* _extract_issues line 347-348: the next issue block, handed to
\* _extract_submitted_by
BeginBlock(t) ==
    /\ pc = "blocks"
    /\ nblocks < MaxBlocks
    /\ nblocks' = nblocks + 1
    /\ text' = t
    /\ pc' = "call"
    /\ UNCHANGED <<aggVars, repo_name, typos, bots, wardens, issues, uid,
                   issue_data, submitters, scanVars>>

\* Lines 349-365: the header is read after the submitters
ExtractIssue ==
    /\ pc = "parsed"
    /\ LET issue_info == extract_issue_info(text)
       IN  IF issue_info # None
           THEN /\ issue_data' = Some([severity |-> issue_info[1].severity,
                                       id |-> issue_info[1].id,
                                       uid |-> uid,
                                       found_by |-> {},
                                       repo_name |-> repo_name])
                /\ submitters' = names
                /\ pc' = "attrib"
                /\ UNCHANGED <<text, scanVars>>
           ELSE /\ pc' = "blocks"
                /\ NoScan
                /\ UNCHANGED <<issue_data, submitters>>
    /\ UNCHANGED <<aggVars, repo_name, typos, bots, wardens, issues, uid, nblocks>>

\* The attribution with a name missing from the ledger entered and credited
AttributeUnknownAdded ==
    /\ pc = "attrib"
    /\ submitters # <<>>
    /\ LET submitter == IF InSeq(Head(submitters), bots)
                        THEN BotPrefix \o Head(submitters)
                        ELSE Head(submitters)
           d == IF IndexOf(wardens, submitter) = 0
                THEN set_warden(wardens, NewWarden(submitter))
                ELSE wardens
           k == IndexOf(d, submitter)
       IN  /\ issue_data' = Some([issue_data[1] EXCEPT !.found_by = @ \cup {submitter}])
           /\ wardens' = [d EXCEPT ![k] = Credit(@, issue_data[1])]
    /\ submitters' = Tail(submitters)
    /\ UNCHANGED <<pc, aggVars, repo_name, typos, bots, issues, uid, nblocks,
                   text, scanVars>>

\* Lines 366-379: one submitter of the issue
Attribute ==
    /\ pc = "attrib"
    /\ submitters # <<>>
    /\ LET submitter == IF InSeq(Head(submitters), bots)
                        THEN BotPrefix \o Head(submitters)
                        ELSE Head(submitters)
           k == IndexOf(wardens, submitter)
       IN  IF k = 0
           THEN UNCHANGED <<issue_data, wardens>>
           ELSE /\ issue_data' = Some([issue_data[1] EXCEPT !.found_by = @ \cup {submitter}])
                /\ wardens' = [wardens EXCEPT ![k] = Credit(@, issue_data[1])]
    /\ submitters' = Tail(submitters)
    /\ UNCHANGED <<pc, aggVars, repo_name, typos, bots, issues, uid, nblocks,
                   text, scanVars>>

\* The issue appended with the counter left where it is
AppendIssueSameUid ==
    /\ pc = "attrib"
    /\ submitters = <<>>
    /\ issues' = Append(issues, issue_data[1])
    /\ issue_data' = None
    /\ pc' = "blocks"
    /\ NoScan
    /\ UNCHANGED <<aggVars, repo_name, typos, bots, wardens, uid, nblocks, submitters>>

\* Lines 380-381
AppendIssue ==
    /\ pc = "attrib"
    /\ submitters = <<>>
    /\ issues' = Append(issues, issue_data[1])
    /\ uid' = uid + 1
    /\ issue_data' = None
    /\ pc' = "blocks"
    /\ NoScan
    /\ UNCHANGED <<aggVars, repo_name, typos, bots, wardens, nblocks, submitters>>

NoContest ==
    /\ repo_name' = ""
    /\ typos' = EmptyDict
    /\ bots' = <<>>
    /\ wardens' = <<>>
    /\ issues' = <<>>
    /\ uid' = 1
    /\ nblocks' = 0
    /\ issue_data' = None
    /\ submitters' = <<>>

\* The contest without issues reported and folded like any other
ContestSkippedFolds ==
    /\ pc = "blocks"
    /\ Len(issues) = 0
    /\ wardens_stats' =
           update_warden_stats(wardens_stats, wardens, exclude_zero_score, Len(issues))
    /\ pc' = "contests"
    /\ NoContest
    /\ UNCHANGED <<exclude_zero_score, top_percentile, reports, ncontests, top_wardens,
                   displayed, total_ratio, avg, text, scanVars>>

\* process_contest lines 444-446 and get_top_performer_stats lines 154-155:
\* no issue, no report
ContestSkipped ==
    /\ pc = "blocks"
    /\ Len(issues) = 0
    /\ pc' = "contests"
    /\ NoContest
    /\ UNCHANGED <<aggVars, text, scanVars>>

\* process_contest lines 448-457 and get_top_performer_stats line 156
ContestFolded ==
    /\ pc = "blocks"
    /\ Len(issues) # 0
    /\ wardens_stats' =
           update_warden_stats(wardens_stats, wardens, exclude_zero_score, Len(issues))
    /\ pc' = "contests"
    /\ NoContest
    /\ UNCHANGED <<exclude_zero_score, top_percentile, reports, ncontests, top_wardens,
                   displayed, total_ratio, avg, text, scanVars>>

(***************************************************************************)
(* ContestAggregator.get_top_performer_stats, lines 158-186                *)
(***************************************************************************)
(***************************************************************************)
(* Python float: IEEE 754 binary64, round to nearest, ties to even.  A      *)
(* float is [m, e]: m the significand as a sequence of bits, most           *)
(* significant first, at most Precision of them after the leading zeros,    *)
(* e the exponent of its last bit; its value is Val(m) * 2^e.               *)
(***************************************************************************)
Precision == 53
\* Long bit sequences are worked on in chunks that fit a machine integer
ChunkBits == 16

Zeros(k) == [i \in 1..k |-> 0]

\* The integer a short bit sequence holds
RECURSIVE Val(_)
Val(b) == IF b = <<>> THEN 0 ELSE 2 * Val(Front(b)) + Last(b)

\* The bits of a natural number
RECURSIVE ToBits(_)
ToBits(n) == IF n = 0 THEN <<>> ELSE ToBits(n \div 2) \o <<n % 2>>

\* The k bits of n < 2^k
Padded(n, k) == Zeros(k - Len(ToBits(n))) \o ToBits(n)

StripZeros(b) ==
    LET ones == {i \in 1..Len(b) : b[i] = 1}
    IN  IF ones = {} THEN <<>>
        ELSE SubSeq(b, CHOOSE i \in ones : \A j \in ones : i <= j, Len(b))

\* b + 1: the last zero bit becomes one, the ones after it zero
Inc(b) ==
    LET zs == {i \in 1..Len(b) : b[i] = 0}
    IN  IF zs = {} THEN <<1>> \o Zeros(Len(b))
        ELSE LET k == CHOOSE i \in zs : \A j \in zs : i >= j
             IN  SubSeq(b, 1, k - 1) \o <<1>> \o Zeros(Len(b) - k)

\* b * n + carry for a small natural n, a chunk at a time from the right
RECURSIVE MulSmall(_, _, _)
MulSmall(b, n, carry) ==
    IF Len(b) <= ChunkBits THEN ToBits(Val(b) * n + carry)
    ELSE LET v == Val(SubSeq(b, Len(b) - ChunkBits + 1, Len(b))) * n + carry
         IN  MulSmall(SubSeq(b, 1, Len(b) - ChunkBits), n, v \div 2^ChunkBits)
                 \o Padded(v % 2^ChunkBits, ChunkBits)

\* The float nearest to b * 2^e (+ a non-zero tail below the last bit when
\* sticky): the bits after the first Precision are dropped and the rest
\* goes up when they are more than half of its last place, or just half and
\* the last bit is odd
RoundFloat(b, e, sticky) ==
    LET sig == StripZeros(b)
    IN  IF Len(sig) <= Precision THEN [m |-> sig, e |-> e]
        ELSE LET keep == SubSeq(sig, 1, Precision)
                 drop == SubSeq(sig, Precision + 1, Len(sig))
                 tail == sticky \/ \E i \in 2..Len(drop) : drop[i] = 1
                 up == drop[1] = 1 /\ (tail \/ keep[Precision] = 1)
                 r == IF up THEN Inc(keep) ELSE keep
             IN  IF Len(r) > Precision
                 THEN [m |-> Front(r), e |-> e + Len(drop) + 1]
                 ELSE [m |-> r, e |-> e + Len(drop)]

\* The first k bits of the binary expansion of r/den, 0 <= r < den < 2^15,
\* and what is left, a chunk at a time
RECURSIVE ExpandFrom(_, _, _)
ExpandFrom(r, den, k) ==
    IF k <= ChunkBits
    THEN [bits |-> Padded((r * 2^k) \div den, k), rem |-> (r * 2^k) % den]
    ELSE LET rest == ExpandFrom((r * 2^ChunkBits) % den, den, k - ChunkBits)
         IN  [bits |-> Padded((r * 2^ChunkBits) \div den, ChunkBits) \o rest.bits,
              rem |-> rest.rem]

\* Zero bits before the first one bit of the expansion of r/den, 0 < r < den
RECURSIVE LeadingZeros(_, _)
LeadingZeros(r, den) == IF 2 * r >= den THEN 0 ELSE 1 + LeadingZeros(2 * r, den)

\* The float a decimal literal num/den stands for, 0 <= num < den
FloatOf(num, den) ==
    IF num = 0 THEN [m |-> <<>>, e |-> 0]
    ELSE LET k == LeadingZeros(num, den) + Precision + 1
             x == ExpandFrom(num, den, k)
         IN  RoundFloat(x.bits, 0 - k, x.rem # 0)

\* float(n) of a small natural
FloatOfInt(n) == [m |-> ToBits(n), e |-> 0]

\* 1.0 - y for 0 <= y < 1: with y = M * 2^e the difference is (2^-e - M) * 2^e,
\* and 2^-e - M is the complement of M on -e bits, plus one
OneMinus(y) ==
    IF StripZeros(y.m) = <<>> THEN FloatOfInt(1)
    ELSE LET M == Zeros(0 - y.e - Len(y.m)) \o y.m
         IN  RoundFloat(Inc([i \in 1..Len(M) |-> 1 - M[i]]), y.e, FALSE)

\* x * y for x = float(n), n a small natural
FloatMul(x, y) == RoundFloat(MulSmall(y.m, Val(x.m), 0), x.e + y.e, FALSE)

\* int(x), x >= 0: the fraction is cut off
FloatToInt(x) ==
    IF x.e >= 0 THEN Val(x.m \o Zeros(x.e))
    ELSE IF Len(x.m) <= 0 - x.e THEN 0
    ELSE Val(SubSeq(x.m, 1, Len(x.m) + x.e))

\* Lines 116-118: the percentiles the constructor accepts, p = num/den
Accepted(p) == ~(p.num < 0 \/ p.num * 100 > 99 * p.den)

\* Lines 161, 166-167
num_top_wardens(num_wardens, p) ==
    LET top_limit == OneMinus(FloatOf(p.num, p.den))
    IN  Max(1, FloatToInt(FloatMul(FloatOfInt(num_wardens), top_limit)))

FracAdd(x, a, b) == Frac(x.num * b + a * x.den, x.den * b)

\* Lines 177-184: the sum over the wardens from i on
RECURSIVE RatioFrom(_, _, _)
RatioFrom(top, i, acc) ==
    IF i > Len(top) THEN acc
    ELSE IF top[i].total_findings = 0 THEN RatioFrom(top, i + 1, acc)
    ELSE IF top[i].total_issues > 0
         THEN RatioFrom(top, i + 1, FracAdd(acc, top[i].total_findings, top[i].total_issues))
         ELSE RatioFrom(top, i + 1, acc)

IsDisplayed(w) == w.total_findings # 0

\* The mean taken over the displayed wardens only
AverageOfDisplayed(ratio, top) == Frac(ratio.num, ratio.den * Len(SelectSeq(top, IsDisplayed)))

\* Line 185
Average(ratio, top) == Frac(ratio.num, ratio.den * Len(top))

\* The contest list is exhausted.  max() of an empty top_wardens raises
\* ValueError (lines 172-175).
Rank ==
    /\ pc = "contests"
    /\ LET num_wardens == Len(wardens_stats)
           sorted_wardens == sort_wardens(wardens_stats)
           top == SubSeq(sorted_wardens, 1,
                         Min(num_top_wardens(num_wardens, top_percentile), num_wardens))
       IN  /\ top_wardens' = top
           /\ IF top = <<>>
              THEN /\ pc' = "crashed"
                   /\ UNCHANGED <<displayed, total_ratio, avg>>
              ELSE /\ displayed' = SelectSeq(top, IsDisplayed)
                   /\ total_ratio' = RatioFrom(top, 1, Frac(0, 1))
                   /\ avg' = Some(Average(RatioFrom(top, 1, Frac(0, 1)), top))
                   /\ pc' = "done"
    /\ UNCHANGED <<exclude_zero_score, top_percentile, wardens_stats, reports,
                   ncontests, contestVars, text, scanVars>>

(***************************************************************************)
(* The run: get_top_performer_stats over a list of at most MaxContests     *)
(* contests.                                                               *)
(***************************************************************************)
Init ==
    /\ pc = "contests"
    /\ exclude_zero_score \in BOOLEAN
    /\ top_percentile \in {p \in TopPercentiles : Accepted(p)}
    /\ wardens_stats = <<>>
    /\ reports = <<>>
    /\ ncontests = 0
    /\ repo_name = ""
    /\ typos = EmptyDict
    /\ bots = <<>>
    /\ wardens = <<>>
    /\ issues = <<>>
    /\ uid = 1
    /\ nblocks = 0
    /\ text = <<>>
    /\ line = <<>>
    /\ pos = 1
    /\ comment_queue = <<>>
    /\ name_buffer = <<>>
    /\ names = <<>>
    /\ issue_data = None
    /\ submitters = <<>>
    /\ top_wardens = <<>>
    /\ displayed = <<>>
    /\ total_ratio = Frac(0, 1)
    /\ avg = None

Next ==
    \/ \E c \in RunContests : StartContest(c.repo_name, c.roster)
    \/ \E t \in RunTexts : BeginBlock(t)
    \/ FindSubmittedLine
    \/ ScanStep
    \/ ScanEnd
    \/ ExtractIssue
    \/ Attribute
    \/ AppendIssue
    \/ ContestSkipped
    \/ ContestFolded
    \/ Rank

Spec == Init /\ [][Next]_vars

(***************************************************************************)
(* One call of _extract_submitted_by, character by character, on every     *)
(* short text and on the texts of the documentation.                       *)
(***************************************************************************)
TextC6 == <<"S","u","b","m","i","t","t","e","d"," ","b","y"," ">> \o <<"a","1","(","v","i","a"," ","b","1",")",","," ","a","2">>
TextC6Marked == StarMarker \o <<"a","1","(","v","i","a"," ","b","1",")",","," ","a","2">>
TextCarol == StarMarker \o <<"a","l","i","c","e",","," ","b","o","b"," ","(","l","e","a","d",")",","," ","a","n","d"," ","c","a","r","o","l","*">>
TextTypoFirst == StarMarker \o Typo141345 \o <<",", " ", "a", "*">>
TextTypoLast == StarMarker \o <<"a", ",", " ">> \o Typo141345 \o <<"*">>
TextTypoOnly == UnderMarker \o Typo141345 \o <<"*">>
TextAB == HdrH \o NL \o StarMarker \o <<"a",","," ","b","*">>
TextAlso == HdrH \o NL \o StarMarker \o <<"a",","," ","a","l","s","o"," ","f","o","u","n","d"," ","b","y"," ","b"," ","a","n","d"," ","a","*",".">> \o NL \o <<"x">>
TextLinks == StarMarker \o <<"[","a","]","(","u",",","v",")",","," ","[","a","]","(","w",",","x",")","*">>
TextEscaped == UnderMarker \o <<"\\","_","a","\\","_",","," ","&","#","9","5",";","a","_">>

TextJoinedAnd == StarMarker \o <<"a"," ","a","n","d"," ","b","*">>
TextJoinedAlso == StarMarker \o <<"a"," ">> \o AlsoFoundBy \o <<"b","*">>

DocTexts == {TextC6, TextC6Marked, TextCarol, TextTypoFirst, TextTypoLast,
             TextTypoOnly, TextAB, TextAlso, TextLinks, TextEscaped,
             TextJoinedAnd, TextJoinedAlso}
ScanTexts == GeneratedTexts \cup DocTexts \cup RunTexts

InitScan ==
    /\ pc = "call"
    /\ text \in ScanTexts
    /\ repo_name \in Repos
    /\ typos = get_typos(repo_name)
    /\ bots = get_bots(repo_name)
    /\ exclude_zero_score = FALSE
    /\ top_percentile = Frac(0, 8)
    /\ wardens_stats = <<>>
    /\ reports = <<>>
    /\ ncontests = 1
    /\ wardens = extract_wardens(<<NameA, NameB>>, get_bots(repo_name))
    /\ issues = <<>>
    /\ uid = 1
    /\ nblocks = 1
    /\ line = <<>>
    /\ pos = 1
    /\ comment_queue = <<>>
    /\ name_buffer = <<>>
    /\ names = <<>>
    /\ issue_data = None
    /\ submitters = <<>>
    /\ top_wardens = <<>>
    /\ displayed = <<>>
    /\ total_ratio = Frac(0, 1)
    /\ avg = None

NextScan ==
    \/ FindSubmittedLine
    \/ ScanStep
    \/ ScanEnd

SpecScan == InitScan /\ [][NextScan]_vars

(***************************************************************************)
(* One contest processed and then pruned, as _extract_top_stats does when   *)
(* zero scores are excluded (contest_processor.py lines 386-388).           *)
(***************************************************************************)
\* LocalWardenContainer.prune_wardens, lines 96-97: the comprehension walks
\* the dict itself, that is its keys; a key is a str and has no
\* get_total_findings, so the first key raises AttributeError and _wardens
\* stays as it was.  Only a dict without keys gets through, and is replaced
\* by the empty list.
prune_wardens(d) ==
    IF d = <<>> THEN [raised |-> FALSE, wardens |-> <<>>]
    ELSE [raised |-> TRUE, wardens |-> d]

PruneWardens ==
    /\ pc = "blocks"
    /\ exclude_zero_score
    /\ wardens' = prune_wardens(wardens).wardens
    /\ pc' = IF prune_wardens(wardens).raised THEN "crashed" ELSE "pruned"
    /\ UNCHANGED <<aggVars, repo_name, typos, bots, issues, uid, nblocks,
                   issue_data, submitters, text, scanVars>>

\* The contests of the run and one whose list of wardens is empty
PruneContests == RunContests \cup {[repo_name |-> "2024-01-other", roster |-> <<>>]}

NextPrune ==
    \/ \E c \in PruneContests : StartContest(c.repo_name, c.roster)
    \/ \E t \in RunTexts : BeginBlock(t)
    \/ FindSubmittedLine
    \/ ScanStep
    \/ ScanEnd
    \/ ExtractIssue
    \/ Attribute
    \/ AppendIssue
    \/ PruneWardens

SpecPrune == Init /\ [][NextPrune]_vars

(***************************************************************************)
(* The fold alone, contest_aggregate.py lines 146-156, on every list of at  *)
(* most MaxContests reports of contests with the wardens a and b or a       *)
(* alone, one to MaxBlocks issues, and each warden credited with none to    *)
(* all of them.                                                             *)
(***************************************************************************)
\* The warden credited with the first k issues of its contest, of severity H
Scored(name, k) ==
    [name |-> name, findings |-> [i \in 1..k |-> i], findings_high |-> k,
     findings_medium |-> 0]

FoldReports ==
    UNION {{[wardens |-> <<Scored(NameA, i)>>, report_issues |-> n] : i \in 0..n}
           \cup {[wardens |-> <<Scored(NameA, i), Scored(NameB, j)>>, report_issues |-> n] :
                     i \in 0..n, j \in 0..n} :
           n \in 1..MaxBlocks}

SeqsUpTo(S, n) == UNION {[1..k -> S] : k \in 0..n}

\* Lines 153-156 for the next report of the list
FoldReport ==
    /\ pc = "contests"
    /\ ncontests < Len(reports)
    /\ wardens_stats' =
           update_warden_stats(wardens_stats, reports[ncontests + 1].wardens,
                               exclude_zero_score, reports[ncontests + 1].report_issues)
    /\ ncontests' = ncontests + 1
    /\ UNCHANGED <<pc, exclude_zero_score, top_percentile, reports, top_wardens,
                   displayed, total_ratio, avg, contestVars, text, scanVars>>

InitFold ==
    /\ pc = "contests"
    /\ exclude_zero_score \in BOOLEAN
    /\ top_percentile = Frac(0, 8)
    /\ wardens_stats = <<>>
    /\ reports \in SeqsUpTo(FoldReports, MaxContests)
    /\ ncontests = 0
    /\ repo_name = ""
    /\ typos = EmptyDict
    /\ bots = <<>>
    /\ wardens = <<>>
    /\ issues = <<>>
    /\ uid = 1
    /\ nblocks = 0
    /\ text = <<>>
    /\ line = <<>>
    /\ pos = 1
    /\ comment_queue = <<>>
    /\ name_buffer = <<>>
    /\ names = <<>>
    /\ issue_data = None
    /\ submitters = <<>>
    /\ top_wardens = <<>>
    /\ displayed = <<>>
    /\ total_ratio = Frac(0, 1)
    /\ avg = None

NextFold == FoldReport

SpecFold == InitFold /\ [][NextFold]_vars

(***************************************************************************)
(* The ranking alone, lines 158-186, on a leaderboard of 1 to MaxWardens    *)
(* wardens and every percentile 0.00, 0.01, ... the constructor accepts.    *)
(***************************************************************************)
MaxWardens == 20

Hundredths == {p \in {Frac(k, 100) : k \in 0..100} : Accepted(p)}

WardenName(i) == <<"w", ToString(i \div 10), ToString(i % 10)>>

\* The ledger of a contest of two issues and n wardens, warden i credited
\* with the first i % 3 of them
Ledger(n) ==
    [i \in 1..n |-> [name |-> WardenName(i),
                     findings |-> SubSeq(<<1, 2>>, 1, i % 3),
                     findings_high |-> i % 3,
                     findings_medium |-> 0]]

InitRank ==
    /\ pc = "contests"
    /\ exclude_zero_score = FALSE
    /\ top_percentile \in Hundredths
    /\ \E n \in 1..MaxWardens :
           wardens_stats = update_warden_stats(<<>>, Ledger(n), FALSE, 2)
    /\ reports = <<>>
    /\ ncontests = MaxContests
    /\ repo_name = ""
    /\ typos = EmptyDict
    /\ bots = <<>>
    /\ wardens = <<>>
    /\ issues = <<>>
    /\ uid = 1
    /\ nblocks = 0
    /\ text = <<>>
    /\ line = <<>>
    /\ pos = 1
    /\ comment_queue = <<>>
    /\ name_buffer = <<>>
    /\ names = <<>>
    /\ issue_data = None
    /\ submitters = <<>>
    /\ top_wardens = <<>>
    /\ displayed = <<>>
    /\ total_ratio = Frac(0, 1)
    /\ avg = None

NextRank == Rank

SpecRank == InitRank /\ [][NextRank]_vars

(***************************************************************************)
(* Properties.                                                             *)
(***************************************************************************)
Ratio(g) == Frac(g.total_findings, g.total_issues)
FracLeq(x, y) == x.num * y.den <= y.num * x.den
FracEq(x, y) == x.num * y.den = y.num * x.den
StatsNames(sq) == {sq[i].name : i \in 1..Len(sq)}
NotSelected == {i \in 1..Len(wardens_stats) : wardens_stats[i].name \notin StatsNames(top_wardens)}

\* The step that folds the current contest into the leaderboard
FoldStep == pc = "blocks" /\ pc' = "contests" /\ Len(issues) # 0

\* C1: with zero-score exclusion enabled, folding a contest in which a
\* warden of the roster has 0 findings neither adds the contest's issue
\* count to that warden's total_issues nor counts a participation, the
\* first contest in which the warden is seen included (where both then
\* stay 0).
C1_ZeroScoreNotCounted ==
    [][(FoldStep /\ exclude_zero_score) =>
        \A i \in 1..Len(wardens) :
            get_total_findings(wardens[i]) = 0 =>
                LET k == IndexOf(wardens_stats, wardens[i].name)
                    k2 == IndexOf(wardens_stats', wardens[i].name)
                IN  k2 # 0 =>
                      /\ wardens_stats'[k2].total_issues =
                             (IF k = 0 THEN 0 ELSE wardens_stats[k].total_issues)
                      /\ wardens_stats'[k2].contest_participations =
                             (IF k = 0 THEN 0 ELSE wardens_stats[k].contest_participations)
      ]_vars

HasMarkerLine(t) ==
    \E i \in 1..Len(SplitLines(t)) :
        \/ StartsWith(SplitLines(t)[i], StarMarker)
        \/ StartsWith(SplitLines(t)[i], UnderMarker)

\* C3: a description with no line beginning with "*Submitted by " or
\* "_Submitted by " is fatal: the parser never gets to scan a line or to
\* return a name list for it.
C3_NoMarkerIsFatal ==
    ~HasMarkerLine(text) => pc \in {"call", "aborted"}

\* C4: at every point of a contest's processing each warden of the ledger
\* has findings_high + findings_medium = len(findings).
C4_FindingsCounted ==
    \A i \in 1..Len(wardens) :
        wardens[i].findings_high + wardens[i].findings_medium = Len(wardens[i].findings)

\* A ledger in mid-attribution with high and medium findings credited
C4_Witness ==
    /\ pc = "attrib"
    /\ \E i, j \in 1..Len(wardens) :
           wardens[i].findings_high >= 2 /\ wardens[j].findings_medium >= 1

\* C5: a ")" met at depth 0 aborts the run on the spot: the scan does not
\* advance, no issue, contest, fold or report follows and nothing changes
\* afterwards; a ")" at depth > 0 only pops the depth.
C5_UnmatchedParenAborts ==
    [][/\ (pc = "scan" /\ pos <= Len(line) /\ line[pos] = ")") =>
             IF comment_queue = <<>>
             THEN /\ pc' = "aborted"
                  /\ UNCHANGED <<pos, name_buffer, names, aggVars, contestVars>>
             ELSE /\ pc' = "scan"
                  /\ pos' = pos + 1
                  /\ comment_queue' = Front(comment_queue)
                  /\ UNCHANGED <<name_buffer, names, aggVars, contestVars>>
       /\ pc # "aborted"
      ]_vars

\* A run aborted by an unmatched ")" after a contest was folded
C5_Witness ==
    /\ pc = "aborted"
    /\ line[pos] = ")"
    /\ comment_queue = <<>>
    /\ wardens_stats # <<>>

NameA1 == <<"a", "1">>
NameA2 == <<"a", "2">>

\* C6 as stated: the text "Submitted by a1(via b1), a2" yields [a1, a2].
C6_BareText ==
    (pc = "parsed" /\ text = TextC6) => names = <<NameA1, NameA2>>

\* C6, amended: the line "*Submitted by a1(via b1), a2", with the marker the
\* parser looks for, is parsed to the end and yields exactly [a1, a2].
C6_MarkedText ==
    text = TextC6Marked =>
        /\ pc # "aborted"
        /\ pc = "parsed" => names = <<NameA1, NameA2>>

C6_Witness == pc = "parsed" /\ text = TextC6Marked

\* Parenthesis depth of l before index i, by counting
Count(l, i, c) == Cardinality({k \in 1..(i - 1) : l[k] = c})
Depth(l, i) == Count(l, i, "(") - Count(l, i, ")")
Balanced(l) ==
    /\ \A i \in 1..(Len(l) + 1) : Depth(l, i) >= 0
    /\ Depth(l, Len(l) + 1) = 0
\* Indices of the characters of l that belong to a name or separate names
Kept(l) == {i \in 1..Len(l) : Depth(l, i) = 0 /\ l[i] \notin {"(", ")", "[", "]"}}
Commas(l) == {i \in Kept(l) : l[i] = ","}
NextComma(l, lo) ==
    IF \E i \in Commas(l) : i > lo
    THEN CHOOSE i \in Commas(l) : i > lo /\ \A j \in Commas(l) : j > lo => i <= j
    ELSE Len(l) + 1
RECURSIVE Pick(_, _, _)
Pick(l, S, i) ==
    IF i > Len(l) THEN <<>>
    ELSE (IF i \in S THEN <<l[i]>> ELSE <<>>) \o Pick(l, S, i + 1)
\* The trimmed depth-0 text between the depth-0 commas after index lo; a
\* stretch with no character yields no name
RECURSIVE TextBetweenCommas(_, _)
TextBetweenCommas(l, lo) ==
    LET hi == NextComma(l, lo)
        seg == Pick(l, Kept(l) \cap ((lo + 1)..(hi - 1)), 1)
    IN  (IF seg # <<>> THEN <<Strip(seg)>> ELSE <<>>)
        \o (IF hi > Len(l) THEN <<>> ELSE TextBetweenCommas(l, hi))

\* C7: for a line with the marker and balanced parentheses the scan ends
\* normally and returns, in order and with repetitions, the trimmed depth-0
\* text between depth-0 commas (a name of the typo table possibly
\* corrected): what is inside parentheses, commas included, and every "["
\* and "]" are dropped.  "*Submitted by alice, bob (lead), and carol*"
\* yields [alice, bob, carol].
C7_DepthZeroNames ==
    /\ (pc \in {"scan", "parsed", "aborted"} /\ HasMarkerLine(text) /\ Balanced(line)) =>
           /\ pc # "aborted"
           /\ pc = "parsed" =>
                  LET ref == TextBetweenCommas(line, 0)
                  IN  /\ Len(names) = Len(ref)
                      /\ \A i \in 1..Len(ref) :
                             \/ names[i] = ref[i]
                             \/ ref[i] \in DOMAIN typos /\ names[i] = typos[ref[i]]
    /\ (pc = "parsed" /\ text = TextCarol) =>
           names = << <<"a","l","i","c","e">>, <<"b","o","b">>, <<"c","a","r","o","l">> >>

\* Links, a comma inside parentheses and a repeated name
C7_Witness ==
    /\ pc = "parsed"
    /\ text = TextLinks
    /\ Balanced(line)
    /\ names = <<NameA, NameA>>

\* C8: with the typo table of 2022-11-size, every name whose trimmed text is
\* "_141345_" is returned as "__141345__", whether flushed by a comma or at
\* the end of the line.
C8_TypoCorrected ==
    (pc = "parsed" /\ Typo141345 \in DOMAIN typos /\ HasMarkerLine(text) /\ Balanced(line)) =>
        LET ref == TextBetweenCommas(line, 0)
        IN  \A i \in 1..Len(ref) :
                ref[i] = Typo141345 => i <= Len(names) /\ names[i] = Fixed141345

\* C9: a block whose header matches neither title grammar is skipped and
\* never aborts the run, whatever its submitter line holds.
C9_BadHeaderSkipped ==
    pc = "aborted" => extract_issue_info(text) # None

RECURSIVE SumRatios(_)
SumRatios(sq) ==
    IF sq = <<>> THEN Frac(0, 1)
    ELSE FracAdd(SumRatios(Tail(sq)), Head(sq).total_findings, Head(sq).total_issues)

\* The lines of the report are the selected wardens with findings, in order
DisplayedAreTheScorers ==
    /\ \A i \in 1..Len(displayed) : displayed[i].total_findings # 0
    /\ displayed = Pick(top_wardens, {i \in 1..Len(top_wardens) : top_wardens[i].total_findings # 0}, 1)

\* C10 as stated: the average is the mean of findings/issues over the
\* displayed wardens, a selected warden with no finding counting neither in
\* the sum nor in the divisor.
C10_MeanOfDisplayed ==
    (pc = "done" /\ displayed # <<>>) =>
        /\ DisplayedAreTheScorers
        /\ FracEq(avg[1], Frac(SumRatios(displayed).num,
                               SumRatios(displayed).den * Len(displayed)))

\* C10, amended: the average is the sum of findings/issues over the
\* displayed wardens divided by the number of selected wardens; a selected
\* warden with no finding is not displayed and adds nothing to the sum, but
\* counts in the divisor.
C10_MeanOfSelected ==
    pc = "done" =>
        /\ DisplayedAreTheScorers
        /\ FracEq(avg[1], Frac(SumRatios(displayed).num,
                               SumRatios(displayed).den * Len(top_wardens)))

\* A report that leaves out a selected warden without findings
C10_Witness ==
    /\ pc = "done"
    /\ displayed # <<>>
    /\ Len(displayed) < Len(top_wardens)

\* C11 as stated: the lines of the report are in descending order of total
\* findings, each line's total_findings is greater than or equal to the
\* next line's.
C11_DescendingFindings ==
    pc = "done" =>
        \A i \in 1..(Len(displayed) - 1) :
            displayed[i].total_findings >= displayed[i + 1].total_findings

\* C11, amended: the lines of the report are in the order of the ranking,
\* descending avg_findings_per_issues: each line's findings/issues ratio is
\* greater than or equal to the next line's, whatever the total findings.
C11_DescendingRatio ==
    pc = "done" =>
        /\ DisplayedAreTheScorers
        /\ \A i \in 1..(Len(displayed) - 1) :
               /\ FracLeq(Ratio(displayed[i + 1]), Ratio(displayed[i]))
               /\ FracEq(displayed[i].avg_findings_per_issues, Ratio(displayed[i]))

\* A report whose first line has the higher ratio and the fewer findings
C11_Witness ==
    /\ pc = "done"
    /\ Len(displayed) >= 2
    /\ FracLess(Ratio(displayed[2]), Ratio(displayed[1]))
    /\ displayed[1].total_findings < displayed[2].total_findings

\* C12: for every population n >= 1 and every accepted percentile the
\* number of selected wardens is max(1, floor(n * (1 - top_percentile))) and
\* at most n; for n = 10 and top_percentile = 0.9 it is 1.
C12_SelectedCount ==
    pc = "done" =>
        LET n == Len(wardens_stats)
        IN  /\ Len(top_wardens) =
                   Max(1, (n * (top_percentile.den - top_percentile.num))
                              \div top_percentile.den)
            /\ Len(top_wardens) <= n
            /\ (n = 10 /\ FracEq(top_percentile, Frac(9, 10))) => Len(top_wardens) = 1

\* The step that ends the current contest when it has yielded no issue
EndsEmptyContest == pc = "blocks" /\ Len(issues) = 0 /\ nblocks' # nblocks + 1

\* C13: a contest that yields no parsed issue is skipped: the step that ends
\* it leaves the leaderboard as it was (no warden added, no counter
\* changed), and the run is back at the head of the loop over the contests,
\* where every contest still in the list is taken in turn.
C13_EmptyContestSkipped ==
    /\ [][EndsEmptyContest =>
             /\ wardens_stats' = wardens_stats
             /\ ncontests' = ncontests
             /\ pc' = "contests"
         ]_vars
    /\ [](pc = "contests" /\ ncontests < MaxContests =>
              \A c \in RunContests : ENABLED StartContest(c.repo_name, c.roster))

\* Two contests consumed, one of them skipped, the other on the leaderboard
C13_Witness ==
    /\ pc = "contests"
    /\ ncontests = 2
    /\ ~exclude_zero_score
    /\ wardens_stats # <<>>
    /\ \A i \in 1..Len(wardens_stats) : wardens_stats[i].contest_participations = 1

\* The submitter line of a text with a marker line, before the clean-up
RawLine(t) == SubmittedLine(t)[1] \o NL

\* C14 as stated: "also found by " and " and " are both replaced by ", ",
\* so that two names joined by either phrase alone come out as two names.
C14_BothPhrasesSplit ==
    (pc = "parsed" /\ text \in {TextJoinedAnd, TextJoinedAlso}) => names = <<NameA, NameB>>

\* C14, amended: "also found by " is removed and " and " is replaced by
\* ", " before the scan: two names joined by " and " alone come out as two
\* names, two names joined by "also found by " alone as one name with a
\* space in it, and "a, also found by b and a" as [a, b, a].
C14_AlsoRemovedAndSplit ==
    /\ (pc \in {"scan", "parsed"} /\ HasMarkerLine(text)) =>
           line = replace_final_chars(replace_special_chars(
                      Replace(Replace(RawLine(text), AlsoFoundBy, <<>>), AndWord, <<",", " ">>)))
    /\ pc = "parsed" =>
           /\ text = TextJoinedAnd => names = <<NameA, NameB>>
           /\ text = TextJoinedAlso => names = << <<"a", " ", "b">> >>
           /\ text = TextAlso => names = <<NameA, NameB, NameA>>

\* Two names joined by "also found by " alone, parsed
C14_Witness ==
    /\ pc = "parsed"
    /\ text = TextJoinedAlso
    /\ Len(names) = 1

\* The name a submitter is looked up under (lines 367-368)
Relabeled(name) == IF InSeq(name, bots) THEN BotPrefix \o name ELSE name

\* C15: the step that handles one submitter name of an accepted issue.  If
\* the (relabeled) name is in the ledger, that warden's finding list grows
\* by this issue, one of its counters grows by one (findings_high iff the
\* severity is H, findings_medium otherwise) and the issue records the
\* warden, every other warden being unchanged; if it is not, no warden and
\* no counter changes.  Either way the next name is next.
C15_AttributionFrame ==
    [][(pc = "attrib" /\ submitters # <<>>) =>
          LET name == Relabeled(Head(submitters))
              issue == issue_data[1]
              known == {i \in 1..Len(wardens) : wardens[i].name = name}
              high == IF issue.severity = "H" THEN 1 ELSE 0
          IN  /\ Cardinality(known) <= 1
              /\ Len(wardens') = Len(wardens)
              /\ \A i \in 1..Len(wardens) :
                     IF i \in known
                     THEN /\ wardens'[i].name = name
                          /\ wardens'[i].findings = Append(wardens[i].findings, issue.uid)
                          /\ wardens'[i].findings_high = wardens[i].findings_high + high
                          /\ wardens'[i].findings_medium = wardens[i].findings_medium + 1 - high
                     ELSE wardens'[i] = wardens[i]
              /\ issue_data'[1].found_by =
                     (IF known # {} THEN issue.found_by \cup {name} ELSE issue.found_by)
              /\ [issue_data'[1] EXCEPT !.found_by = {}] = [issue EXCEPT !.found_by = {}]
              /\ submitters' = Tail(submitters)
              /\ pc' = "attrib"
              /\ UNCHANGED <<issues, uid, wardens_stats>>
      ]_vars

\* An issue whose names are all handled, one credited and one not in the
\* ledger
C15_Witness ==
    /\ pc = "attrib"
    /\ submitters = <<>>
    /\ issue_data[1].found_by # {}
    /\ \E i \in 1..Len(names) : IndexOf(wardens, Relabeled(names[i])) = 0

\* C16: in every contest the k-th issue of the issue list has uid k and the
\* next uid is one more than the number of issues, whatever the ids of the
\* headers: a dropped block uses no uid and every contest starts at 1.
C16_SequentialUids ==
    /\ uid = Len(issues) + 1
    /\ \A k \in 1..Len(issues) : issues[k].uid = k
    /\ pc = "attrib" => issue_data[1].uid = Len(issues) + 1

\* The second contest, after one with issues: its first block was dropped,
\* its second one has uid 1 under a header with id 2
C16_Witness ==
    /\ pc = "attrib"
    /\ ncontests = 2
    /\ wardens_stats # <<>>
    /\ nblocks = 2
    /\ issues = <<>>
    /\ issue_data[1].uid = 1
    /\ issue_data[1].id = 2

HasFindings(w) == get_total_findings(w) > 0

\* C17: pruning a ledger ends without error on every ledger and leaves the
\* ledger holding exactly its wardens with at least one finding, each as it
\* was and under its name, and none with zero findings.
C17_PruneKeepsScorers ==
    [][(pc = "blocks" /\ pc' \in {"pruned", "crashed"}) =>
          /\ pc' = "pruned"
          /\ wardens' = SelectSeq(wardens, HasFindings)
      ]_vars

\* The leaderboard after folding the reports rs, in order, into stats
RECURSIVE FoldAll(_, _, _)
FoldAll(stats, rs, excl) ==
    IF rs = <<>> THEN stats
    ELSE FoldAll(update_warden_stats(stats, Head(rs).wardens, excl, Head(rs).report_issues),
                 Tail(rs), excl)

\* The orders in which n reports can be folded
Orders(n) == {f \in [1..n -> 1..n] : \A i, j \in 1..n : f[i] = f[j] => i = j}

Totals(g) ==
    [name |-> g.name, total_findings |-> g.total_findings, total_high |-> g.total_high,
     total_medium |-> g.total_medium, total_issues |-> g.total_issues,
     contest_participations |-> g.contest_participations]
TotalsOf(stats) == {Totals(stats[i]) : i \in 1..Len(stats)}

\* C18: whatever the setting of exclude_zero_score, the totals of every
\* warden on the leaderboard are those that folding the same reports in any
\* other order gives.
C18_OrderIndependent ==
    (pc = "contests" /\ ncontests = Len(reports)) =>
        \A f \in Orders(Len(reports)) :
            TotalsOf(FoldAll(<<>>, [i \in 1..Len(reports) |-> reports[f[i]]],
                             exclude_zero_score))
                = TotalsOf(wardens_stats)

\* C19: within a contest no warden has more findings than the contest has
\* issues (the one being attributed included), however the submitter lists
\* repeat a name; hence on the leaderboard total_findings <= total_issues
\* for every warden.
C19_FindingsAtMostIssues ==
    /\ \A i \in 1..Len(wardens) :
           get_total_findings(wardens[i]) <= Len(issues) + (IF pc = "attrib" THEN 1 ELSE 0)
    /\ \A i \in 1..Len(wardens_stats) :
           wardens_stats[i].total_findings <= wardens_stats[i].total_issues

\* C20: a run in which no parsing condition is fatal ends normally, the
\* run over the empty list and the run all of whose contests are skipped
\* included: the ranking never raises, and once the list is left it has
\* produced the average.
C20_RankingEndsNormally ==
    /\ pc # "crashed"
    /\ pc \notin {"contests", "blocks", "call", "scan", "parsed", "attrib", "aborted"} =>
           pc = "done" /\ avg # None

====
